---- MODULE Spec2Model ----
(***************************************************************************)
(* ShopWise AI: the item-matching and price-aggregation core of            *)
(* streamlit_app.py (tokenizer, normalizer, matcher, aggregator, cheapest  *)
(* store) and the session state its Compare and Add buttons keep.          *)
(*                                                                         *)
(* A Python str is a sequence of one-character strings, so that lower(),   *)
(* strip(), replace(), split() and the "in" operator are computed and not  *)
(* assumed.  Prices are integers (cents).  A similarity score is the       *)
(* fraction <<numerator, denominator>> in lowest terms.                    *)
(***************************************************************************)
EXTENDS Integers, Sequences, FiniteSets, TLC

VARIABLES
    pc,               \* position of the script or of the function under check
    text,             \* split_user_input: the raw text
    parts,            \* split_user_input: the returned list
    products,         \* PRODUCTS, the catalog after load_products
    user_term,        \* find_best_match: the query
    threshold,        \* find_best_match: the threshold
    match,            \* find_best_match: the returned (product, score)
    matched_items,    \* st.session_state["matched_items"] / aggregate_by_store's input
    not_found_items,  \* st.session_state["not_found_items"]
    entered,          \* history: the terms entered since the last effective Compare
    store_data,       \* aggregate_by_store's result
    cheapest          \* the cheapest-store selection

vars == <<pc, text, parts, products, user_term, threshold, match,
          matched_items, not_found_items, entered, store_data, cheapest>>

-----------------------------------------------------------------------------
(* Bounds *)

MaxTextLen == 4
MaxQueryLen == 2
MaxProducts == 2
MaxItems == 2
MaxEntered == 3

-----------------------------------------------------------------------------
(* Sequences *)

RECURSIVE SeqsUpTo(_, _)
SeqsUpTo(S, n) ==
    IF n = 0 THEN {<<>>}
    ELSE LET shorter == SeqsUpTo(S, n - 1)
         IN  shorter \cup {Append(s, x) : s \in {t \in shorter : Len(t) = n - 1}, x \in S}

Range(s) == {s[i] : i \in 1..Len(s)}

-----------------------------------------------------------------------------
(* Python str methods *)

\* the characters str.strip() and str.split() treat as whitespace
Whitespace == {" ", "\n", "\t"}

LowerChar(c) ==
    CASE c = "M" -> "m"
      [] c = "Ü" -> "ü"
      [] OTHER -> c

\* str.lower()
lower(s) == [i \in 1..Len(s) |-> LowerChar(s[i])]

\* str.strip()
strip(s) ==
    LET keep == {i \in 1..Len(s) : s[i] \notin Whitespace}
    IN  IF keep = {} THEN <<>>
        ELSE LET lo == CHOOSE i \in keep : \A j \in keep : i <= j
                 hi == CHOOSE i \in keep : \A j \in keep : j <= i
             IN  SubSeq(s, lo, hi)

\* str.replace(k, v) for a one-character k
RECURSIVE replace(_, _, _)
replace(s, k, v) ==
    IF s = <<>> THEN <<>>
    ELSE (IF Head(s) = k THEN v ELSE <<Head(s)>>) \o replace(Tail(s), k, v)

\* needle in hay
IsSubstring(needle, hay) ==
    \E i \in 0..(Len(hay) - Len(needle)) : SubSeq(hay, i + 1, i + Len(needle)) = needle

\* normalize_text with the transliteration table left out
normalize_text_no_repl(s) == strip(lower(s))

normalize_text(s) ==
    LET s0 == strip(lower(s))
        s1 == replace(s0, "ä", <<"a">>)
        s2 == replace(s1, "ö", <<"o">>)
        s3 == replace(s2, "ü", <<"u">>)
    IN  replace(s3, "ß", <<"s", "s">>)

-----------------------------------------------------------------------------
(* Text tokenizer *)

Separators == {",", ";", "\n"}

\* re.split(r"[,;\n]+", text): the pieces between runs of separators, the
\* empty pieces before a leading and after a trailing run included
RECURSIVE re_split(_, _, _, _)
re_split(s, i, cur, acc) ==
    IF i > Len(s) THEN Append(acc, cur)
    ELSE IF s[i] \in Separators
         THEN IF i > 1 /\ s[i - 1] \in Separators
              THEN re_split(s, i + 1, cur, acc)
              ELSE re_split(s, i + 1, <<>>, Append(acc, cur))
         ELSE re_split(s, i + 1, Append(cur, s[i]), acc)

\* str.split(): the maximal runs of non-whitespace characters
RECURSIVE str_split(_, _, _, _)
str_split(s, i, cur, acc) ==
    IF i > Len(s) THEN (IF cur = <<>> THEN acc ELSE Append(acc, cur))
    ELSE IF s[i] \in Whitespace
         THEN str_split(s, i + 1, <<>>, IF cur = <<>> THEN acc ELSE Append(acc, cur))
         ELSE str_split(s, i + 1, Append(cur, s[i]), acc)

\* split_user_input keeping the pieces that are not empty before stripping
split_user_input_unstripped_filter(t) ==
    IF t = <<>> THEN <<>>
    ELSE LET ps == IF \E i \in 1..Len(t) : t[i] \in Separators
                   THEN re_split(t, 1, <<>>, <<>>)
                   ELSE str_split(t, 1, <<>>, <<>>)
             kept == SelectSeq(ps, LAMBDA p : p # <<>>)
         IN  [i \in 1..Len(kept) |-> strip(kept[i])]

split_user_input(t) ==
    IF t = <<>> THEN <<>>
    ELSE LET ps == IF \E i \in 1..Len(t) : t[i] \in Separators
                   THEN re_split(t, 1, <<>>, <<>>)
                   ELSE str_split(t, 1, <<>>, <<>>)
             kept == SelectSeq(ps, LAMBDA p : strip(p) # <<>>)
         IN  [i \in 1..Len(kept) |-> strip(kept[i])]

-----------------------------------------------------------------------------
(* Scores: fractions in lowest terms *)

RECURSIVE GCD(_, _)
GCD(x, y) == IF y = 0 THEN x ELSE GCD(y, x % y)

Frac(n, d) == LET g == GCD(n, d) IN <<n \div g, d \div g>>

Less(x, y) == x[1] * y[2] < y[1] * x[2]
LessEq(x, y) == x[1] * y[2] <= y[1] * x[2]

Zero == <<0, 1>>
One == <<1, 1>>
\* the score of a substring hit, 0.99
SubstringScore == <<99, 100>>
\* the default threshold, 0.5
DefaultThreshold == <<1, 2>>

-----------------------------------------------------------------------------
(* difflib.SequenceMatcher(None, a, b).ratio(), positions 1-based, windows  *)
(* alo..ahi and blo..bhi inclusive.  No junk: isjunk is None and the        *)
(* automatic junk heuristic needs 200 characters.                           *)

\* newj2len[j] while scanning a[i]: the length of the common run of a and b
\* that ends at a[i], b[j] and stays inside the window
RECURSIVE RunLen(_, _, _, _, _, _)
RunLen(a, b, i, j, alo, blo) ==
    IF i < alo \/ j < blo THEN 0
    ELSE IF a[i] # b[j] THEN 0
    ELSE 1 + RunLen(a, b, i - 1, j - 1, alo, blo)

\* find_longest_match: <<i, j, k>>, the longest block a[i..i+k-1] = b[j..j+k-1];
\* the scan is by increasing end in a, then in b, and only a strictly longer
\* run replaces the best one
find_longest_match(a, b, alo, ahi, blo, bhi) ==
    LET ends == (alo..ahi) \X (blo..bhi)
        len == [e \in ends |-> RunLen(a, b, e[1], e[2], alo, blo)]
        longest == {e \in ends : len[e] > 0 /\ \A f \in ends : len[f] <= len[e]}
    IN  IF longest = {} THEN <<alo, blo, 0>>
        ELSE LET e == CHOOSE e \in longest : \A f \in longest :
                          e[1] < f[1] \/ (e[1] = f[1] /\ e[2] <= f[2])
             IN  <<e[1] - len[e] + 1, e[2] - len[e] + 1, len[e]>>

\* get_matching_blocks: the total size of the blocks, the longest one first
\* and then the pieces on its left and on its right
RECURSIVE matches(_, _, _, _, _, _)
matches(a, b, alo, ahi, blo, bhi) ==
    IF alo > ahi \/ blo > bhi THEN 0
    ELSE LET x == find_longest_match(a, b, alo, ahi, blo, bhi)
             i == x[1]
             j == x[2]
             k == x[3]
         IN  IF k = 0 THEN 0
             ELSE k + matches(a, b, alo, i - 1, blo, j - 1)
                    + matches(a, b, i + k, ahi, j + k, bhi)

\* ratio(): 2.0 * matches / length, and 1.0 when both strings are empty
ratio(a, b) ==
    LET length == Len(a) + Len(b)
    IN  IF length = 0 THEN One
        ELSE Frac(2 * matches(a, b, 1, Len(a), 1, Len(b)), length)

-----------------------------------------------------------------------------
(* Catalog *)

\* JSON null
Null == <<"null">>

\* item.get(key, "") or ""
GetOrEmpty(item, key) ==
    IF key \notin DOMAIN item THEN <<>>
    ELSE IF item[key] = Null \/ item[key] = <<>> THEN <<>>
    ELSE item[key]

\* load_products: every item gets its "__names_for_match"
load_products(data) ==
    [i \in 1..Len(data) |->
        [item |-> data[i],
         names_for_match |-> <<GetOrEmpty(data[i], "canonical_name"),
                               GetOrEmpty(data[i], "english_name")>>]]

-----------------------------------------------------------------------------
(* Matcher.  A product is named by its position in the catalog (the object  *)
(* find_best_match returns is the catalog's own); 0 is None.                *)

NoProduct == 0

\* the names of the catalog in scan order: <<product, name>>
RECURSIVE ScanOrder(_, _)
ScanOrder(ps, k) ==
    IF k > Len(ps) THEN <<>>
    ELSE [n \in 1..Len(ps[k].names_for_match) |-> <<k, ps[k].names_for_match[n]>>]
         \o ScanOrder(ps, k + 1)

\* the substring pass returning the last hit
substring_pass_last(user_norm, ps) ==
    LET scan == ScanOrder(ps, 1)
        hits == {n \in 1..Len(scan) :
                    user_norm # <<>> /\ IsSubstring(user_norm, normalize_text(scan[n][2]))}
    IN  IF hits = {} THEN NoProduct
        ELSE scan[CHOOSE n \in hits : \A m \in hits : m <= n][1]

\* the substring pass: the product of the first name, in scan order, that
\* contains the non-empty normalized query; NoProduct when there is none
substring_pass(user_norm, ps) ==
    LET scan == ScanOrder(ps, 1)
        hits == {n \in 1..Len(scan) :
                    user_norm # <<>> /\ IsSubstring(user_norm, normalize_text(scan[n][2]))}
    IN  IF hits = {} THEN NoProduct
        ELSE scan[CHOOSE n \in hits : \A m \in hits : n <= m][1]

\* the fuzzy pass replacing the best on an equal score too
RECURSIVE fuzzy_pass_last(_, _, _, _)
fuzzy_pass_last(user_norm, scan, n, best) ==
    IF n > Len(scan) THEN best
    ELSE LET score == ratio(user_norm, normalize_text(scan[n][2]))
         IN  fuzzy_pass_last(user_norm, scan, n + 1,
                 IF LessEq(best.score, score)
                 THEN [product |-> scan[n][1], score |-> score]
                 ELSE best)

\* the fuzzy pass: best_product and best_score after the names from n on
RECURSIVE fuzzy_pass(_, _, _, _)
fuzzy_pass(user_norm, scan, n, best) ==
    IF n > Len(scan) THEN best
    ELSE LET score == ratio(user_norm, normalize_text(scan[n][2]))
         IN  fuzzy_pass(user_norm, scan, n + 1,
                 IF Less(best.score, score)
                 THEN [product |-> scan[n][1], score |-> score]
                 ELSE best)

Unmatched == [product |-> NoProduct, score |-> Zero]

\* find_best_match normalizing the query without the transliteration table
find_best_match_raw_query(term, ps, thr) ==
    LET user_norm == normalize_text_no_repl(term)
        hit == substring_pass(user_norm, ps)
        best == fuzzy_pass(user_norm, ScanOrder(ps, 1), 1, Unmatched)
    IN  IF hit # NoProduct THEN [product |-> hit, score |-> SubstringScore]
        ELSE IF LessEq(thr, best.score) THEN best
        ELSE Unmatched

find_best_match(term, ps, thr) ==
    LET user_norm == normalize_text(term)
        hit == substring_pass(user_norm, ps)
        best == fuzzy_pass(user_norm, ScanOrder(ps, 1), 1, Unmatched)
    IN  IF hit # NoProduct THEN [product |-> hit, score |-> SubstringScore]
        ELSE IF LessEq(thr, best.score) THEN best
        ELSE Unmatched

-----------------------------------------------------------------------------
(* Aggregator.  A price of the catalog is [num |-> cents] when float()      *)
(* accepts it and [str |-> ...] when float() raises ValueError.  A dict is  *)
(* the sequence of its <<key, value>> pairs in insertion order.             *)

stores == <<"kaufland", "lidl", "aldi">>

Keys(d) == {d[i][1] : i \in 1..Len(d)}

\* d[k] = v: a new key is appended, a present key keeps its place
DictSet(d, k, v) ==
    IF k \in Keys(d)
    THEN [i \in 1..Len(d) |-> IF d[i][1] = k THEN <<k, v>> ELSE d[i]]
    ELSE Append(d, <<k, v>>)

\* product.get("prices", {})
PricesOf(product) ==
    IF "prices" \in DOMAIN product.item THEN product.item.prices ELSE <<>>

EmptyResult == [s \in Range(stores) |-> [total |-> 0, items |-> <<>>]]

\* the inner loop of aggregate_by_store over one product's prices, from n on
RECURSIVE add_prices(_, _, _, _)
add_prices(acc, term, prices, n) ==
    IF n > Len(prices) \/ acc.exception # "none" THEN acc
    ELSE LET store == prices[n][1]
             price == prices[n][2]
         IN  IF store \notin Range(stores)
             THEN [exception |-> "KeyError", result |-> <<>>]
             ELSE IF "num" \notin DOMAIN price
             THEN [exception |-> "ValueError", result |-> <<>>]
             ELSE add_prices(
                    [acc EXCEPT !.result[store].total = @ + price.num,
                                !.result[store].items = DictSet(@, term, price.num)],
                    term, prices, n + 1)

\* the outer loop of aggregate_by_store over the entries, from n on
RECURSIVE add_entries(_, _, _)
add_entries(acc, items, n) ==
    IF n > Len(items) \/ acc.exception # "none" THEN acc
    ELSE add_entries(add_prices(acc, items[n].user_term, PricesOf(items[n].product), 1),
                     items, n + 1)

\* the price of a store in a product's prices, 0 when it has none
RECURSIVE GetOrZero(_, _, _)
GetOrZero(prices, store, n) ==
    IF n > Len(prices) THEN 0
    ELSE IF prices[n][1] = store /\ "num" \in DOMAIN prices[n][2] THEN prices[n][2].num
    ELSE GetOrZero(prices, store, n + 1)

\* aggregate_by_store summing product["prices"].get(store, 0.0) for every store
RECURSIVE add_entries_zero_default(_, _, _)
add_entries_zero_default(acc, items, n) ==
    IF n > Len(items) THEN acc
    ELSE add_entries_zero_default(
            [acc EXCEPT !.result =
                [s \in Range(stores) |->
                    LET price == GetOrZero(PricesOf(items[n].product), s, 1)
                    IN  [total |-> acc.result[s].total + price,
                         items |-> DictSet(acc.result[s].items, items[n].user_term, price)]]],
            items, n + 1)

aggregate_by_store_zero_default(items) ==
    add_entries_zero_default([exception |-> "none", result |-> EmptyResult], items, 1)

\* aggregate_by_store: [exception, result]; result is the returned dict when
\* exception is "none", and nothing is returned otherwise
aggregate_by_store(items) ==
    add_entries([exception |-> "none", result |-> EmptyResult], items, 1)

\* valid_stores: the stores with at least one line item, in dict order
valid_stores(sd) == SelectSeq(stores, LAMBDA s : sd.result[s].items # <<>>)

\* min(valid, key=valid.get) keeping the last of several minima
min_by_total_last(valid, sd) ==
    valid[CHOOSE i \in 1..Len(valid) :
            /\ \A j \in 1..Len(valid) : sd.result[valid[i]].total <= sd.result[valid[j]].total
            /\ \A j \in (i + 1)..Len(valid) :
                  sd.result[valid[i]].total < sd.result[valid[j]].total]

\* min(valid, key=valid.get): the first key, in dict order, of minimal total
min_by_total(valid, sd) ==
    valid[CHOOSE i \in 1..Len(valid) :
            /\ \A j \in 1..Len(valid) : sd.result[valid[i]].total <= sd.result[valid[j]].total
            /\ \A j \in 1..(i - 1) :
                  sd.result[valid[j]].total > sd.result[valid[i]].total]

\* the UI's "Cheapest overall" message: the store it names, "none" without one
cheapest_overall(sd) ==
    LET valid == valid_stores(sd)
    IN  IF valid = <<>> THEN "none" ELSE min_by_total(valid, sd)

\* rule_based_summary: the store its first line names, or its message
rule_based_summary(sd) ==
    LET valid == valid_stores(sd)
    IN  IF valid = <<>> THEN "No valid prices to compare"
        ELSE min_by_total(valid, sd)

-----------------------------------------------------------------------------
(* Session handlers.  An entry of matched_items holds the product itself.   *)

Entry(term, ps, m) == [user_term |-> term, product |-> ps[m.product], score |-> m.score]

\* the loop of the Compare handler over items, from n on: <<matched, not_found>>
RECURSIVE match_all(_, _, _, _)
match_all(items, ps, n, lists) ==
    IF n > Len(items) THEN lists
    ELSE LET m == find_best_match(items[n], ps, DefaultThreshold)
         IN  match_all(items, ps, n + 1,
                 IF m.product = NoProduct
                 THEN <<lists[1], Append(lists[2], items[n])>>
                 ELSE <<Append(lists[1], Entry(items[n], ps, m)), lists[2]>>)

\* the Compare handler extending the session's lists
compare_handler_extend(matched, not_found, user_input, ps) ==
    LET items == split_user_input(user_input)
    IN  IF items = <<>> THEN <<matched, not_found>>
        ELSE match_all(items, ps, 1, <<matched, not_found>>)

\* the Compare handler: the session's <<matched_items, not_found_items>> after it
compare_handler(matched, not_found, user_input, ps) ==
    LET items == split_user_input(user_input)
    IN  IF items = <<>> THEN <<matched, not_found>>
        ELSE match_all(items, ps, 1, <<<<>>, <<>>>>)

\* the Add handler: the session's <<matched_items, not_found_items>> after it
add_handler(matched, not_found, new_item, ps) ==
    IF strip(new_item) = <<>> THEN <<matched, not_found>>
    ELSE LET m == find_best_match(new_item, ps, DefaultThreshold)
         IN  IF m.product = NoProduct
             THEN <<matched, Append(not_found, new_item)>>
             ELSE <<Append(matched, Entry(new_item, ps, m)), not_found>>

\* whether the script's rendering of the results raises: aggregate_by_store
\* runs only when there are matched items
render_raises(matched) ==
    matched # <<>> /\ aggregate_by_store(matched).exception # "none"

-----------------------------------------------------------------------------
(* Inputs *)

Str1(a) == <<a>>
Str2(a, b) == <<a, b>>
Str3(a, b, c) == <<a, b, c>>

Price(cents) == [num |-> cents]
Malformed == [str |-> "abc"]

\* catalog items of the matcher and of the session
MatchItems ==
    { [canonical_name |-> Str3("M", "u", "s"),
       prices |-> << <<"kaufland", Price(105)>>, <<"lidl", Price(99)>>, <<"aldi", Price(109)>> >>],
      [canonical_name |-> Str3("M", "u", "ß"), english_name |-> Str2("u", "m"),
       prices |-> << <<"lidl", Price(99)>> >>],
      [canonical_name |-> Str3("M", "u", "s"), english_name |-> <<>>,
       prices |-> << <<"kaufland", Price(50)>>, <<"rewe", Price(100)>> >>],
      [canonical_name |-> Null, english_name |-> Str2("M", "ü")] }

\* the catalogs: up to MaxProducts different records of the data file, in any order
Catalogs ==
    {load_products(d) :
        d \in {c \in SeqsUpTo(MatchItems, MaxProducts) :
                  \A i, j \in 1..Len(c) : c[i] = c[j] => i = j}}

QueryChars == {"m", "M", "u", "ü", "s", "ß", " "}
Queries == SeqsUpTo(QueryChars, MaxQueryLen)

Thresholds == {Zero, DefaultThreshold, <<3, 4>>}

TextChars == {"a", "b", " ", ",", ";", "\n"}
Texts == SeqsUpTo(TextChars, MaxTextLen)

\* products of the aggregator's input
PriceItems ==
    << [canonical_name |-> Str1("a"),
        prices |-> << <<"kaufland", Price(105)>>, <<"lidl", Price(99)>>, <<"aldi", Price(109)>> >>],
       [canonical_name |-> Str1("b"), prices |-> << <<"kaufland", Price(99)>> >>],
       [canonical_name |-> Str1("c"),
        prices |-> << <<"lidl", Price(99)>>, <<"aldi", Price(99)>> >>],
       [canonical_name |-> Str1("d")],
       [canonical_name |-> Str1("e"), prices |-> << <<"aldi", Price(0)>> >>],
       [canonical_name |-> Str1("f"),
        prices |-> << <<"kaufland", Price(105)>>, <<"rewe", Price(100)>> >>],
       [canonical_name |-> Str1("g"), prices |-> << <<"lidl", Malformed>> >>] >>

AggTerms == {"milch", "brot"}
AggEntries ==
    {[user_term |-> t, product |-> p, score |-> SubstringScore] :
        t \in AggTerms, p \in Range(load_products(PriceItems))}

\* texts of the Compare action and items of the Add action
SessionInputs ==
    { <<>>,
      <<" ", ",", " ">>,
      <<"m", "u", ",", "ß">>,
      <<"ß", "u", " ", "m", "u">>,
      <<"m", "u", ";", "m", "u">> }
SessionNewItems == { <<>>, <<" ">>, <<"m", "u">>, <<" ", "ß">>, <<"m", "m">> }

-----------------------------------------------------------------------------
(* Tokenizer: split_user_input applied to a text *)

InitSplit ==
    /\ pc = "start"
    /\ text \in Texts
    /\ parts = <<>>
    /\ products = <<>> /\ user_term = <<>> /\ threshold = Zero /\ match = Unmatched
    /\ matched_items = <<>> /\ not_found_items = <<>> /\ entered = <<>>
    /\ store_data = <<>> /\ cheapest = <<>>

SplitUserInput ==
    /\ pc = "start"
    /\ parts' = split_user_input(text)
    /\ pc' = "done"
    /\ UNCHANGED <<text, products, user_term, threshold, match, matched_items,
                   not_found_items, entered, store_data, cheapest>>

NextSplit == SplitUserInput

SpecSplit == InitSplit /\ [][NextSplit]_vars

-----------------------------------------------------------------------------
(* Matcher: find_best_match applied to a query, a catalog and a threshold *)

InitMatch ==
    /\ pc = "start"
    /\ products \in Catalogs
    /\ user_term \in Queries
    /\ threshold \in Thresholds
    /\ match = Unmatched
    /\ text = <<>> /\ parts = <<>>
    /\ matched_items = <<>> /\ not_found_items = <<>> /\ entered = <<>>
    /\ store_data = <<>> /\ cheapest = <<>>

FindBestMatch ==
    /\ pc = "start"
    /\ match' = find_best_match(user_term, products, threshold)
    /\ pc' = "done"
    /\ UNCHANGED <<text, parts, products, user_term, threshold, matched_items,
                   not_found_items, entered, store_data, cheapest>>

NextMatch == FindBestMatch

SpecMatch == InitMatch /\ [][NextMatch]_vars

-----------------------------------------------------------------------------
(* Aggregator: aggregate_by_store applied to a list of matched results, and *)
(* then the cheapest-store selection as the script makes it                 *)

InitAgg ==
    /\ pc = "start"
    /\ matched_items \in SeqsUpTo(AggEntries, MaxItems)
    /\ store_data = <<>>
    /\ cheapest = <<>>
    /\ text = <<>> /\ parts = <<>>
    /\ products = <<>> /\ user_term = <<>> /\ threshold = Zero /\ match = Unmatched
    /\ not_found_items = <<>> /\ entered = <<>>

\* store_data = aggregate_by_store(matched); an exception ends the script run
AggregateByStore ==
    /\ pc = "start"
    /\ store_data' = aggregate_by_store(matched_items)
    /\ pc' = IF store_data'.exception = "none" THEN "aggregated" ELSE "raised"
    /\ UNCHANGED <<text, parts, products, user_term, threshold, match, matched_items,
                   not_found_items, entered, cheapest>>

\* the "Cheapest overall" message and the rule-based summary
Cheapest ==
    /\ pc = "aggregated"
    /\ cheapest' = [overall |-> cheapest_overall(store_data),
                    summary |-> rule_based_summary(store_data)]
    /\ pc' = "done"
    /\ UNCHANGED <<text, parts, products, user_term, threshold, match, matched_items,
                   not_found_items, entered, store_data>>

NextAgg == AggregateByStore \/ Cheapest

SpecAgg == InitAgg /\ [][NextAgg]_vars

-----------------------------------------------------------------------------
(* Session: the script runs the Compare and Add buttons trigger.  pc is     *)
(* "shown" when the last run rendered the page to its end and "crashed"     *)
(* when aggregate_by_store raised while rendering, which leaves the Add     *)
(* widgets unrendered.  entered is history: the tokens of the last Compare  *)
(* that had any, followed by the non-blank items added since.               *)

InitSession ==
    /\ pc = "shown"
    /\ products \in Catalogs
    /\ matched_items = <<>>
    /\ not_found_items = <<>>
    /\ entered = <<>>
    /\ text = <<>> /\ parts = <<>>
    /\ user_term = <<>> /\ threshold = DefaultThreshold /\ match = Unmatched
    /\ store_data = <<>> /\ cheapest = <<>>

\* the input area and the Compare button exist when PRODUCTS is not empty
Compare(user_input) ==
    /\ products # <<>>
    /\ \E lists \in {compare_handler(matched_items, not_found_items, user_input, products)} :
           /\ matched_items' = lists[1]
           /\ not_found_items' = lists[2]
           /\ pc' = IF render_raises(matched_items') THEN "crashed" ELSE "shown"
    /\ entered' = IF split_user_input(user_input) # <<>>
                  THEN split_user_input(user_input) ELSE entered
    /\ UNCHANGED <<text, parts, products, user_term, threshold, match, store_data, cheapest>>

\* the Add widgets exist when the page was rendered with some result on it
Add(new_item) ==
    /\ products # <<>>
    /\ pc = "shown"
    /\ matched_items # <<>> \/ not_found_items # <<>>
    /\ Len(entered) < MaxEntered
    /\ \E lists \in {add_handler(matched_items, not_found_items, new_item, products)} :
           /\ matched_items' = lists[1]
           /\ not_found_items' = lists[2]
           /\ pc' = IF render_raises(matched_items') THEN "crashed" ELSE "shown"
    /\ entered' = IF strip(new_item) # <<>> THEN Append(entered, new_item) ELSE entered
    /\ UNCHANGED <<text, parts, products, user_term, threshold, match, store_data, cheapest>>

NextSession ==
    \/ \E user_input \in SessionInputs : Compare(user_input)
    \/ \E new_item \in SessionNewItems : Add(new_item)

SpecSession == InitSession /\ [][NextSession]_vars

Init == InitSession
Next == NextSession
Spec == SpecSession

-----------------------------------------------------------------------------
(* Properties of the aggregator (SpecAgg) *)

Returned == pc \in {"aggregated", "done"}

HasPrice(product, store) ==
    \E n \in 1..Len(PricesOf(product)) : PricesOf(product)[n][1] = store

PriceAt(product, store) ==
    LET prices == PricesOf(product)
        price == prices[CHOOSE n \in 1..Len(prices) : prices[n][1] = store][2]
    IN  IF "num" \in DOMAIN price THEN price.num ELSE 0

\* the sum of a store's price over the entries whose product has one
RECURSIVE SumAt(_, _)
SumAt(items, store) ==
    IF items = <<>> THEN 0
    ELSE (IF HasPrice(Head(items).product, store)
          THEN PriceAt(Head(items).product, store) ELSE 0)
         + SumAt(Tail(items), store)

\* one <<query, price>> per entry whose product has a price at the store
RECURSIVE LineItems(_, _)
LineItems(items, store) ==
    IF items = <<>> THEN <<>>
    ELSE (IF HasPrice(Head(items).product, store)
          THEN << <<Head(items).user_term, PriceAt(Head(items).product, store)>> >>
          ELSE <<>>)
         \o LineItems(Tail(items), store)

RECURSIVE SumOfItems(_)
SumOfItems(d) == IF d = <<>> THEN 0 ELSE Head(d)[2] + SumOfItems(Tail(d))

\* C1: whenever aggregate_by_store returns, every store's total is the sum of
\* that store's price over exactly the results whose product defines one, and
\* the store has a line item only for the queries of such results: a product
\* without an entry for the store adds neither an amount nor a line item.
C1_TotalSumsDefinedPrices ==
    Returned =>
        \A s \in Range(stores) :
            /\ store_data.result[s].total = SumAt(matched_items, s)
            /\ Keys(store_data.result[s].items) =
                 {matched_items[n].user_term :
                    n \in {m \in 1..Len(matched_items) : HasPrice(matched_items[m].product, s)}}

\* C1 witness: a result whose product has no price at a store that has a line
\* item from another result, and a price at some other store
C1_Witness ==
    /\ Returned
    /\ \E n \in 1..Len(matched_items) : \E s, t \in Range(stores) :
          /\ ~HasPrice(matched_items[n].product, s)
          /\ HasPrice(matched_items[n].product, t)
          /\ store_data.result[s].items # <<>>

\* C2: whenever aggregate_by_store returns, every store's line items are one
\* (query, price) entry per result with a price at that store, in match order,
\* repeated queries kept, and the store's total is the sum of its line items.
C2_LineItemPerResult ==
    Returned =>
        \A s \in Range(stores) :
            /\ store_data.result[s].items = LineItems(matched_items, s)
            /\ store_data.result[s].total = SumOfItems(store_data.result[s].items)

\* C3: the selection names the first store, in the order kaufland, lidl, aldi,
\* whose total is minimal among the stores with a line item, and names no
\* store (the summary says that no prices can be compared) when no store has one.
C3_CheapestFirstMinimum ==
    pc = "done" =>
        LET has(s) == store_data.result[s].items # <<>>
            total(s) == store_data.result[s].total
        IN  IF \A s \in Range(stores) : ~has(s)
            THEN /\ cheapest.overall = "none"
                 /\ cheapest.summary = "No valid prices to compare"
            ELSE \E i \in 1..Len(stores) :
                    /\ has(stores[i])
                    /\ cheapest.overall = stores[i]
                    /\ cheapest.summary = stores[i]
                    /\ \A j \in 1..Len(stores) :
                          has(stores[j]) =>
                             /\ total(stores[i]) <= total(stores[j])
                             /\ j < i => total(stores[j]) > total(stores[i])

\* C3 witness: two stores with line items share the minimal total, a store
\* without line items is left out, and the first of the two is named
C3_Witness ==
    /\ pc = "done"
    /\ store_data.result["kaufland"].items = <<>>
    /\ store_data.result["lidl"].items # <<>>
    /\ store_data.result["aldi"].items # <<>>
    /\ store_data.result["lidl"].total = store_data.result["aldi"].total
    /\ cheapest.overall = "lidl"

\* C4: aggregate_by_store returns for every list of matched results, also
\* when a product's prices hold a store outside the fixed list or a malformed
\* price.
C4_AggregateNeverRaises ==
    pc # "start" => store_data.exception = "none"

-----------------------------------------------------------------------------
(* Properties of the matcher (SpecMatch) *)

NormalizedQuery == normalize_text(user_term)

Contains(k, q) ==
    \E n \in 1..Len(products[k].names_for_match) :
        IsSubstring(q, normalize_text(products[k].names_for_match[n]))

SubstringHits ==
    IF NormalizedQuery = <<>> THEN {}
    ELSE {k \in 1..Len(products) : Contains(k, NormalizedQuery)}

\* the similarity scores of the names of each product, in catalog order
Scores ==
    [k \in 1..Len(products) |->
        {ratio(NormalizedQuery, normalize_text(products[k].names_for_match[n])) :
            n \in 1..Len(products[k].names_for_match)}]

MaxOf(scores) ==
    LET all == UNION Range(scores)
    IN  CHOOSE x \in all : \A y \in all : LessEq(y, x)

FirstWith(scores, x) ==
    CHOOSE k \in 1..Len(scores) : x \in scores[k] /\ \A j \in 1..(k - 1) : x \notin scores[j]

\* the normal form of every query
NormalForm == [q \in Queries |-> normalize_text(q)]

\* one query for every normal form: the same for all queries that share it
Representative ==
    [q \in Queries |-> CHOOSE r \in Queries : NormalForm[r] = NormalForm[q]]

\* C5: for a query that is empty or only whitespace, find_best_match returns
\* the unmatched result, whatever the catalog.
C5_BlankQueryUnmatched ==
    (pc = "done" /\ strip(user_term) = <<>>) => match = Unmatched

\* C6: when the normalized query is not empty and some name of some product
\* contains it, find_best_match returns the first such product in catalog
\* order with score 0.99, whatever the threshold and the later products.
C6_FirstSubstringHit ==
    (pc = "done" /\ SubstringHits # {}) =>
        /\ match.score = SubstringScore
        /\ match.product \in SubstringHits
        /\ \A k \in SubstringHits : match.product <= k

\* C6 witness: a later product has a name equal to the query and the
\* returned, earlier product only contains it
C6_Witness ==
    /\ pc = "done"
    /\ match.product \in SubstringHits
    /\ \E k \in SubstringHits :
          /\ k > match.product
          /\ \E n \in 1..2 : normalize_text(products[k].names_for_match[n]) = NormalizedQuery
          /\ \A n \in 1..2 :
                normalize_text(products[match.product].names_for_match[n]) # NormalizedQuery

\* C7 as claimed: without a substring hit, find_best_match returns the first
\* product that reaches the maximal similarity, with that score, if and only
\* if the maximum is at least the threshold, and the unmatched result otherwise.
C7_BestIffAtLeastThreshold ==
    (pc = "done" /\ SubstringHits = {}) =>
        IF products = <<>> THEN match = Unmatched
        ELSE LET scores == Scores
                 max == MaxOf(scores)
             IN  IF LessEq(threshold, max)
                 THEN match = [product |-> FirstWith(scores, max), score |-> max]
                 ELSE match = Unmatched

\* C7 as amended: without a substring hit, find_best_match returns the first
\* product that reaches the maximal similarity, with that score, if and only
\* if the maximum is at least the threshold and greater than 0, and the
\* unmatched result otherwise.
C7_BestIffPositiveAtLeastThreshold ==
    (pc = "done" /\ SubstringHits = {}) =>
        IF products = <<>> THEN match = Unmatched
        ELSE LET scores == Scores
                 max == MaxOf(scores)
             IN  IF LessEq(threshold, max) /\ Less(Zero, max)
                 THEN match = [product |-> FirstWith(scores, max), score |-> max]
                 ELSE match = Unmatched

\* C7 witness: two different products reach the maximal similarity, which is
\* at least the positive threshold, and the first one is returned
C7_Witness ==
    /\ pc = "done"
    /\ SubstringHits = {}
    /\ Len(products) = 2
    /\ products[1] # products[2]
    /\ Less(Zero, threshold)
    /\ LET scores == Scores
           max == MaxOf(scores)
       IN  /\ max \in scores[1] /\ max \in scores[2]
           /\ LessEq(threshold, max)
           /\ match = [product |-> 1, score |-> max]

\* C9: every query gets the product and the score that the representative of
\* its normal form gets over the same catalog and threshold; as every query,
\* catalog and threshold is tried, any two queries with equal normalize_text
\* values get the same product and the same score.
C9_EqualNormalFormsMatchAlike ==
    pc = "done" =>
        match = find_best_match(Representative[user_term], products, threshold)

\* C9 witness: a matched query that differs from the representative of its
\* normal form by a transliterated character
C9_Witness ==
    /\ pc = "done"
    /\ match.product # NoProduct
    /\ normalize_text_no_repl(Representative[user_term]) # normalize_text_no_repl(user_term)

-----------------------------------------------------------------------------
(* Properties of the tokenizer (SpecSplit) *)

\* the characters the text is split on
SplitOn ==
    IF \E i \in 1..Len(text) : text[i] \in Separators THEN Separators ELSE Whitespace

\* the maximal stretches <<lo, hi>> of the text without a character it is
\* split on that hold a character other than whitespace
Segments ==
    {seg \in (1..Len(text)) \X (1..Len(text)) :
        /\ seg[1] <= seg[2]
        /\ \A i \in seg[1]..seg[2] : text[i] \notin SplitOn
        /\ seg[1] = 1 \/ text[seg[1] - 1] \in SplitOn
        /\ seg[2] = Len(text) \/ text[seg[2] + 1] \in SplitOn
        /\ \E i \in seg[1]..seg[2] : text[i] \notin Whitespace}

\* C8: the returned tokens are, in input order and with repetitions, the
\* stretches of the text between runs of ',', ';' and newline when it holds
\* one of them and between runs of whitespace otherwise, each stripped and
\* none empty; a text of whitespace and separators only yields the empty list.
C8_TokensAreTrimmedSegments ==
    pc = "done" =>
        /\ Len(parts) = Cardinality(Segments)
        /\ \A k \in 1..Len(parts) :
              /\ parts[k] # <<>>
              /\ parts[k][1] \notin Whitespace
              /\ parts[k][Len(parts[k])] \notin Whitespace
              /\ \E seg \in Segments :
                    /\ Cardinality({other \in Segments : other[1] < seg[1]}) = k - 1
                    /\ parts[k] = strip(SubSeq(text, seg[1], seg[2]))
        /\ (\A i \in 1..Len(text) : text[i] \in Whitespace \cup Separators) => parts = <<>>

\* C8 witness: a text with a separator and a blank piece, split into a
\* repeated token
C8_Witness ==
    /\ pc = "done"
    /\ \E i \in 1..Len(text) : text[i] \in Separators
    /\ \E i \in 1..Len(text) : text[i] = " "
    /\ Len(parts) = 2
    /\ parts[1] = parts[2]

-----------------------------------------------------------------------------
(* Properties of the session (SpecSession) *)

IsMatched(term) == find_best_match(term, products, DefaultThreshold).product # NoProduct

\* C10: matched_items and not_found_items hold exactly the entered terms (the
\* tokens of the last Compare that had any, then the non-blank items added
\* since), each in one of the two lists and in entry order: in matched_items,
\* with the product and score find_best_match returns, iff it returns a product.
C10_SessionHoldsEnteredTerms ==
    LET found == SelectSeq(entered, IsMatched)
        missed == SelectSeq(entered, LAMBDA t : ~IsMatched(t))
    IN  /\ not_found_items = missed
        /\ Len(matched_items) = Len(found)
        /\ \A n \in 1..Len(found) :
              matched_items[n] =
                 Entry(found[n], products, find_best_match(found[n], products, DefaultThreshold))

\* C10 witness: after a Compare and an Add of an item with surrounding
\* whitespace, both lists are in use
C10_Witness ==
    /\ Len(entered) >= 3
    /\ \E n \in 1..Len(entered) : entered[n] # strip(entered[n])
    /\ matched_items # <<>>
    /\ not_found_items # <<>>

====
